---- MODULE Spec2Model ----
(***************************************************************************)
(* Model of sheinverse_women.py: a poller that fetches a paginated product *)
(* listing, alerts on new products and on growth of the declared total,    *)
(* tracks disappearance / reappearance of products and persists its state  *)
(* in a JSON file.                                                         *)
(*                                                                         *)
(* Python dicts are modelled as functions whose DOMAIN is the key set, so  *)
(* "key in d" is  key \in DOMAIN d.  A product is a dict that may lack the *)
(* "code" or the "price" field.  Time is the value time.time() returns; it *)
(* advances by POLL_INTERVAL_SEC in every sleep of the loop.               *)
(***************************************************************************)
EXTENDS Integers, Sequences, FiniteSets, TLC

\* ------------------------------------------------------------------ bounds
MaxCycles == 4    \* iterations of the loop, counted by the clock
MaxTotal == 2     \* largest declared totalResults
MaxPages == 2     \* pages of a listing
MaxFaults == 1    \* failures of fetch_page and of save_state in one run

\* -------------------------------------------------------- program constants
POLL_INTERVAL_SEC == 10

VARIABLES
    pc,                     \* position of main_loop: "idle" (top of the while loop),
                            \* "reconciled" (before line 186), "terminated"
    cause,                  \* why the process ended: "none", "shutdown", "exception"
    now,                    \* time.time()
    creds,                  \* BOT_TOKEN and CHAT_ID are both set in the environment
    seen_products,          \* main_loop local: key -> info dict
    restock_alerted,        \* main_loop local: key -> bool
    last_total_results,     \* main_loop local
    file,                   \* STATE_FILE on disk
    products,               \* main_loop local: products of this cycle
    current_total_results,  \* main_loop local: declared total of this cycle
    failed_page,            \* page whose fetch raised in this cycle (0: the first; -1: none)
    sent,                   \* send_telegram_message calls of this cycle, in order
    restock_count,          \* executions of line 183 per key since this process started
    faults,                 \* failures of fetch_page and save_state so far
    save_result,            \* how the latest save_state call of this process ended:
                            \* "none", "ok", "open_error", "write_error"
    observed,               \* keys of the products of the fetches of this process
                            \* in which no page failed
    missed,                 \* keys that were tracked and not listed in such a fetch
    new_count               \* NEW messages per key passed to send_telegram_message
                            \* since this process started

vars == <<pc, cause, now, creds, seen_products, restock_alerted, last_total_results,
          file, products, current_total_results, failed_page, sent, new_count, restock_count,
          faults, save_result, observed, missed>>

\* ------------------------------------------------------------ Python values
None == "<None>"

\* str(x) for the values a "code" field takes here
PyStr(x) == IF x = None THEN "None" ELSE x

EmptyDict == [k \in {} |-> TRUE]

\* dict.get(key, default)
Get(d, key, default) == IF key \in DOMAIN d THEN d[key] ELSE default

\* ---------------------------------------------------------------- products
Price == [displayformattedValue |-> "Rs.499"]

ProdA == [code |-> "A", url |-> "/p/A", price |-> Price]
ProdANoPrice == [code |-> "A", url |-> "/p/A"]
ProdB == [code |-> "B", url |-> "/p/B", price |-> Price]
ProdNoCode == [url |-> "/p/x", price |-> Price]
ProdEmptyCode == [code |-> "", url |-> "/p/y", price |-> Price]
ProdNullCode == [code |-> None, url |-> "/p/z", price |-> Price]

\* the products a listing is made of
Payloads == {ProdA, ProdANoPrice, ProdB}

\* the same with a product whose code is null in place of B
NullPayloads == {ProdA, ProdNullCode, ProdNoCode, ProdEmptyCode}

\* the keys extract_product_key yields for these products
Keys == {"A", "B", "None"}

\* A page of the listing carries no product or one product.
PageProducts(payloads) == {<<>>} \cup {<<p>> : p \in payloads}

\* the listings: one to MaxPages pages
Catalogs(payloads) == UNION {[1..n -> PageProducts(payloads)] : n \in 1..MaxPages}

\* the listings of the checked runs
Listings == Catalogs(Payloads)

Totals == 0..MaxTotal

\* ------------------------------------------------------------------- state
EmptyState ==
    [seen_products |-> EmptyDict, restock_alerted |-> EmptyDict, last_total_results |-> 0]

\* a dict as the JSON object json.dump writes: its key / value members
JsonObject(d) == {<<k, d[k]>> : k \in DOMAIN d}

\* the value of member k of a JSON object
Member(o, k) == (CHOOSE m \in o : m[1] = k)[2]

\* the info dict json.load builds from a JSON object
InfoOf(o) ==
    IF \E m \in o : m[1] = "missing_since"
    THEN [first_seen |-> Member(o, "first_seen"), last_seen |-> Member(o, "last_seen"),
          missing_since |-> Member(o, "missing_since")]
    ELSE [first_seen |-> Member(o, "first_seen"), last_seen |-> Member(o, "last_seen")]

\* the document json.load reads back
json_load(doc) ==
    [seen_products |->
        [k \in {m[1] : m \in doc.seen_products} |-> InfoOf(Member(doc.seen_products, k))],
     restock_alerted |->
        [k \in {m[1] : m \in doc.restock_alerted} |-> Member(doc.restock_alerted, k)],
     last_total_results |-> doc.last_total_results]

\* mutant of load_state: last_total_results is not restored
load_stateWithoutTotal(f) ==
    IF f.status = "json"
    THEN [json_load(f.data) EXCEPT !.last_total_results = 0]
    ELSE EmptyState

\* load_state: the JSON of the file, or the empty state when the file does not
\* exist or does not parse
load_state(f) == IF f.status = "json" THEN json_load(f.data) ELSE EmptyState

\* the file a complete json.dump(state, f) leaves
json_dump(seen, alerted, total) ==
    [status |-> "json",
     data |-> [seen_products |-> JsonObject([k \in DOMAIN seen |-> JsonObject(seen[k])]),
               restock_alerted |-> JsonObject(alerted),
               last_total_results |-> total]]

\* the file when it does not exist, or holds no complete document
NoDocument(status) ==
    [status |-> status,
     data |-> [seen_products |-> {}, restock_alerted |-> {}, last_total_results |-> 0]]

\* ------------------------------------------------------------------- fetch
RECURSIVE Concat(_, _, _)
\* products of pages lo..hi, in page order
Concat(pages, lo, hi) ==
    IF lo > hi THEN <<>> ELSE pages[lo] \o Concat(pages, lo + 1, hi)

\* fetch_all_products when page 0 was fetched: the pages before the first page
\* whose fetch raises (fail = -1: none raises); pages are numbered from 0
fetch_all_products(pages, fail) ==
    IF fail = -1 THEN Concat(pages, 1, Len(pages)) ELSE Concat(pages, 1, fail)

\* ------------------------------------------------------------ notifications
extract_product_key(prod) == PyStr(Get(prod, "code", ""))

\* product_to_message raises KeyError when the product has no "price"
Raises(prod) == "price" \notin DOMAIN prod

product_to_message(prod, event_type) ==
    [event_type |-> event_type,
     link |-> <<"https://www.sheinindia.in", Get(prod, "url", "")>>,
     price |-> prod.price.displayformattedValue]

summary_alert_message(current_total, count) ==
    [event_type |-> "STOCK UPDATE", total |-> current_total, count |-> count]

\* one call of send_telegram_message; delivery is filled in by Dispatch
Call(kind, key, text) == [kind |-> kind, key |-> key, text |-> text, delivery |-> "pending"]

\* send_telegram_message: nothing is posted without credentials; a post that
\* raises is logged and swallowed
send_telegram_message(call, hasCreds, postOk) ==
    [call EXCEPT !.delivery =
        IF ~hasCreds THEN "disabled" ELSE IF postOk THEN "posted" ELSE "failed"]

Dispatch(calls, hasCreds, postOk) ==
    [i \in 1..Len(calls) |-> send_telegram_message(calls[i], hasCreds, postOk[i])]

\* --------------------------------------------------------------- reconcile
\* lines 157-162: the keys of a product list, empty keys skipped
current_codes(prods) ==
    {extract_product_key(prods[i]) : i \in DOMAIN prods} \ {""}

\* mutant of SummaryCalls: a tie alerts too
SummaryCallsOnTie(current, last) ==
    IF current >= last
    THEN <<Call("SUMMARY", "", summary_alert_message(current, current - last))>>
    ELSE <<>>

\* lines 148-154: the summary alert
SummaryCalls(current, last) ==
    IF current > last
    THEN <<Call("SUMMARY", "", summary_alert_message(current, current - last))>>
    ELSE <<>>

\* mutant of NextTotal: the latest declared total is stored
NextTotalLatest(current, last) == current

\* line 154 under the test of line 149
NextTotal(current, last) == IF current > last THEN current ELSE last

RECURSIVE ProductLoopPrepending(_, _, _)
\* mutant of ProductLoop: a NEW message is put in front of the earlier messages
ProductLoopPrepending(prods, acc, t) ==
    IF prods = <<>> \/ acc.raised THEN acc
    ELSE LET prod == Head(prods)
             key == extract_product_key(prod)
         IN IF key = "" THEN ProductLoopPrepending(Tail(prods), acc, t)
            ELSE LET codes2 == acc.codes \cup {key} IN
                 IF key \notin DOMAIN acc.seen
                 THEN LET seen2 == acc.seen @@ (key :> [first_seen |-> t, last_seen |-> t])
                      IN IF Raises(prod)
                         THEN [acc EXCEPT !.seen = seen2, !.codes = codes2, !.raised = TRUE]
                         ELSE ProductLoopPrepending(Tail(prods),
                                [acc EXCEPT !.seen = seen2, !.codes = codes2,
                                   !.calls = <<Call("NEW", key,
                                                product_to_message(prod, "NEW"))>> \o @], t)
                 ELSE ProductLoopPrepending(Tail(prods), [acc EXCEPT !.codes = codes2], t)

RECURSIVE ProductLoop(_, _, _)
\* lines 157-169: acc = [seen, codes, calls, raised]
ProductLoop(prods, acc, t) ==
    IF prods = <<>> \/ acc.raised THEN acc
    ELSE LET prod == Head(prods)
             key == extract_product_key(prod)
         IN IF key = "" THEN ProductLoop(Tail(prods), acc, t)
            ELSE LET codes2 == acc.codes \cup {key} IN
                 IF key \notin DOMAIN acc.seen
                 THEN LET seen2 == acc.seen @@ (key :> [first_seen |-> t, last_seen |-> t])
                      IN IF Raises(prod)
                         THEN [acc EXCEPT !.seen = seen2, !.codes = codes2, !.raised = TRUE]
                         ELSE ProductLoop(Tail(prods),
                                [acc EXCEPT !.seen = seen2, !.codes = codes2,
                                   !.calls = Append(@, Call("NEW", key,
                                                 product_to_message(prod, "NEW")))], t)
                 ELSE ProductLoop(Tail(prods), [acc EXCEPT !.codes = codes2], t)

\* mutant of UpdateSeen: missing_since is stamped in every cycle of absence
UpdateSeenRestamping(seen, codes, t) ==
    [key \in DOMAIN seen |->
        IF key \notin codes
        THEN [first_seen |-> seen[key].first_seen, last_seen |-> seen[key].last_seen,
              missing_since |-> t]
        ELSE [seen[key] EXCEPT !.last_seen = t]]

\* mutant of UpdateSeen: a key that is not listed is dropped
UpdateSeenPruning(seen, codes, t) ==
    [key \in DOMAIN seen \cap codes |-> [seen[key] EXCEPT !.last_seen = t]]

\* lines 172-184, the seen_products part
UpdateSeen(seen, codes, t) ==
    [key \in DOMAIN seen |->
        IF key \notin codes
        THEN IF "missing_since" \notin DOMAIN seen[key]
             THEN [first_seen |-> seen[key].first_seen, last_seen |-> seen[key].last_seen,
                   missing_since |-> t]
             ELSE seen[key]
        ELSE [seen[key] EXCEPT !.last_seen = t]]

\* the keys line 183 sets
Restocked(seen, codes, alerted) ==
    {key \in DOMAIN seen \cap codes :
        "missing_since" \in DOMAIN seen[key] /\ ~Get(alerted, key, FALSE)}

\* mutant of UpdateAlerted: the flag of a key that is not listed is reset
UpdateAlertedResetting(seen, codes, alerted) ==
    [key \in DOMAIN alerted \cup Restocked(seen, codes, alerted) |->
        IF key \in Restocked(seen, codes, alerted) THEN TRUE
        ELSE IF key \notin codes THEN FALSE ELSE alerted[key]]

\* lines 172-184, the restock_alerted part
UpdateAlerted(seen, codes, alerted) ==
    [key \in DOMAIN alerted \cup Restocked(seen, codes, alerted) |->
        IF key \in Restocked(seen, codes, alerted) THEN TRUE ELSE alerted[key]]

\* ------------------------------------------------------------------ actions
Init ==
    /\ pc = "idle"
    /\ cause = "none"
    /\ now = 0
    /\ creds \in BOOLEAN
    /\ seen_products = EmptyDict
    /\ restock_alerted = EmptyDict
    /\ last_total_results = 0
    /\ file = NoDocument("absent")
    /\ products = <<>>
    /\ current_total_results = 0
    /\ failed_page = -1
    /\ sent = <<>>
    /\ new_count = [k \in Keys |-> 0]
    /\ restock_count = [k \in Keys |-> 0]
    /\ faults = 0
    /\ save_result = "none"
    /\ observed = {}
    /\ missed = {}

\* mutant of FetchError: a failed fetch is reconciled as an empty listing
FetchErrorAsEmpty ==
    /\ pc = "idle"
    /\ now < MaxCycles * POLL_INTERVAL_SEC
    /\ faults < MaxFaults
    /\ faults' = faults + 1
    /\ failed_page' = 0
    /\ products' = <<>>
    /\ current_total_results' = 0
    /\ sent' = <<>>
    /\ now' = now + POLL_INTERVAL_SEC
    /\ seen_products' = UpdateSeen(seen_products, {}, now)
    /\ UNCHANGED <<pc, cause, creds, restock_alerted, last_total_results,
                   file, new_count, restock_count, save_result, observed, missed>>

\* lines 140-146: fetch_page(0) raises or the first page is malformed, so
\* fetch_all_products raises; the loop sleeps and continues
FetchError ==
    /\ pc = "idle"
    /\ now < MaxCycles * POLL_INTERVAL_SEC
    /\ faults < MaxFaults
    /\ faults' = faults + 1
    /\ failed_page' = 0
    /\ products' = <<>>
    /\ current_total_results' = 0
    /\ sent' = <<>>
    /\ now' = now + POLL_INTERVAL_SEC
    /\ UNCHANGED <<pc, cause, creds, seen_products, restock_alerted, last_total_results,
                   file, new_count, restock_count, save_result, observed, missed>>

\* mutant of Reconcile: a key whose NEW message was not posted is not kept,
\* so that it is announced again
ReconcileRetrying(pages, total, fail) ==
    LET prods == fetch_all_products(pages, fail)
        summary == SummaryCalls(total, last_total_results)
        loop == ProductLoop(prods,
                   [seen |-> seen_products, codes |-> {}, calls |-> summary,
                    raised |-> FALSE], now)
    IN /\ products' = prods
       /\ current_total_results' = total
       /\ failed_page' = fail
       /\ \E postOk \in [1..Len(loop.calls) -> BOOLEAN] :
             /\ sent' = Dispatch(loop.calls, creds, postOk)
             /\ LET kept == DOMAIN loop.seen \
                            {loop.calls[i].key : i \in {j \in 1..Len(loop.calls) :
                                loop.calls[j].kind = "NEW" /\ ~(creds /\ postOk[j])}}
                    seen == [k \in kept |-> loop.seen[k]]
                IN IF loop.raised
                   THEN seen_products' = seen
                   ELSE seen_products' = UpdateSeen(seen, loop.codes, now)
       /\ new_count' = [k \in Keys |->
             new_count[k] + Cardinality({i \in 1..Len(loop.calls) :
                 loop.calls[i].kind = "NEW" /\ loop.calls[i].key = k})]
       /\ last_total_results' = NextTotal(total, last_total_results)
       /\ IF loop.raised
          THEN /\ pc' = "terminated"
               /\ cause' = "exception"
               /\ UNCHANGED <<restock_alerted, restock_count>>
          ELSE /\ restock_alerted' = UpdateAlerted(loop.seen, loop.codes, restock_alerted)
               /\ restock_count' = [k \in Keys |->
                     IF k \in Restocked(loop.seen, loop.codes, restock_alerted)
                     THEN restock_count[k] + 1 ELSE restock_count[k]]
               /\ pc' = "reconciled"
               /\ UNCHANGED cause
       /\ observed' = IF fail = -1 THEN observed \cup current_codes(prods) ELSE observed
       /\ missed' = IF fail = -1
                    THEN missed \cup (DOMAIN seen_products \ current_codes(prods))
                    ELSE missed
       /\ faults' = IF fail = -1 THEN faults ELSE faults + 1
       /\ UNCHANGED <<now, creds, file, save_result>>

\* lines 140-142 and 148-184 for one listing: the fetch returns, the alerts are
\* sent and the in-memory state is updated
Reconcile(pages, total, fail) ==
    LET prods == fetch_all_products(pages, fail)
        summary == SummaryCalls(total, last_total_results)
        loop == ProductLoop(prods,
                   [seen |-> seen_products, codes |-> {}, calls |-> summary,
                    raised |-> FALSE], now)
    IN /\ products' = prods
       /\ current_total_results' = total
       /\ failed_page' = fail
       /\ \E postOk \in [1..Len(loop.calls) -> BOOLEAN] :
             sent' = Dispatch(loop.calls, creds, postOk)
       /\ new_count' = [k \in Keys |->
             new_count[k] + Cardinality({i \in 1..Len(loop.calls) :
                 loop.calls[i].kind = "NEW" /\ loop.calls[i].key = k})]
       /\ last_total_results' = NextTotal(total, last_total_results)
       /\ IF loop.raised
          THEN /\ seen_products' = loop.seen
               /\ pc' = "terminated"
               /\ cause' = "exception"
               /\ UNCHANGED <<restock_alerted, restock_count>>
          ELSE /\ seen_products' = UpdateSeen(loop.seen, loop.codes, now)
               /\ restock_alerted' = UpdateAlerted(loop.seen, loop.codes, restock_alerted)
               /\ restock_count' = [k \in Keys |->
                     IF k \in Restocked(loop.seen, loop.codes, restock_alerted)
                     THEN restock_count[k] + 1 ELSE restock_count[k]]
               /\ pc' = "reconciled"
               /\ UNCHANGED cause
       /\ observed' = IF fail = -1 THEN observed \cup current_codes(prods) ELSE observed
       /\ missed' = IF fail = -1
                    THEN missed \cup (DOMAIN seen_products \ current_codes(prods))
                    ELSE missed
       /\ faults' = IF fail = -1 THEN faults ELSE faults + 1
       /\ UNCHANGED <<now, creds, file, save_result>>

\* one iteration of the loop whose fetch returns, up to line 184, for a listing
\* out of listings
CycleOf(listings) ==
    /\ pc = "idle"
    /\ now < MaxCycles * POLL_INTERVAL_SEC
    /\ \E pages \in listings, total \in Totals :
          \E fail \in {-1} \cup (1..Len(pages) - 1) :
             /\ fail # -1 => faults < MaxFaults
             /\ Reconcile(pages, total, fail)

Cycle == CycleOf(Listings)

\* what open(STATE_FILE, "w") and json.dump leave on disk
Written(result, old, seen, alerted, total) ==
    CASE result = "ok" -> json_dump(seen, alerted, total)
      [] result = "open_error" -> old
      [] result = "write_error" -> NoDocument("partial")

\* mutant of Save: a save that fails ends the process
SaveAborting ==
    /\ pc = "reconciled"
    /\ \E result \in {"ok", "open_error", "write_error"} :
          /\ result # "ok" => faults < MaxFaults
          /\ faults' = IF result = "ok" THEN faults ELSE faults + 1
          /\ file' = Written(result, file, seen_products, restock_alerted, last_total_results)
          /\ save_result' = result
          /\ pc' = IF result = "ok" THEN "idle" ELSE "terminated"
          /\ cause' = IF result = "ok" THEN cause ELSE "exception"
    /\ now' = now + POLL_INTERVAL_SEC
    /\ products' = <<>>
    /\ current_total_results' = 0
    /\ failed_page' = -1
    /\ sent' = <<>>
    /\ UNCHANGED <<creds, seen_products, restock_alerted, last_total_results,
                   new_count, restock_count, observed, missed>>

\* lines 186-192: save_state, then the sleep
Save ==
    /\ pc = "reconciled"
    /\ \E result \in {"ok", "open_error", "write_error"} :
          /\ result # "ok" => faults < MaxFaults
          /\ faults' = IF result = "ok" THEN faults ELSE faults + 1
          /\ file' = Written(result, file, seen_products, restock_alerted, last_total_results)
          /\ save_result' = result
    /\ pc' = "idle"
    /\ now' = now + POLL_INTERVAL_SEC
    /\ products' = <<>>
    /\ current_total_results' = 0
    /\ failed_page' = -1
    /\ sent' = <<>>
    /\ UNCHANGED <<cause, creds, seen_products, restock_alerted, last_total_results,
                   new_count, restock_count, observed, missed>>

\* the process is stopped from outside while it sleeps
Shutdown ==
    /\ pc = "idle"
    /\ pc' = "terminated"
    /\ cause' = "shutdown"
    /\ UNCHANGED <<now, creds, seen_products, restock_alerted, last_total_results, file,
                   products, current_total_results, failed_page, sent, new_count,
                   restock_count, faults, save_result, observed, missed>>

Next == FetchError \/ Cycle \/ Save \/ Shutdown

Spec == Init /\ [][Next]_vars

\* ------------------------------------------------------- stops and restarts
\* what a process killed inside save_state (lines 54-55) leaves on disk: the
\* old file when open() had not run, a truncated or partly written file, or
\* the complete new document
KilledWrite(point, old, seen, alerted, total) ==
    CASE point = "before_open" -> old
      [] point = "in_dump" -> NoDocument("partial")
      [] point = "after_dump" -> json_dump(seen, alerted, total)

\* the process is killed from outside while save_state runs
KillDuringSave ==
    /\ pc = "reconciled"
    /\ \E point \in {"before_open", "in_dump", "after_dump"} :
          file' = KilledWrite(point, file, seen_products, restock_alerted,
                              last_total_results)
    /\ pc' = "terminated"
    /\ cause' = "killed"
    /\ UNCHANGED <<now, creds, seen_products, restock_alerted, last_total_results,
                   products, current_total_results, failed_page, sent, new_count,
                   restock_count, faults, save_result, observed, missed>>

\* the process is started again: lines 131-137
Restart ==
    /\ pc = "terminated"
    /\ pc' = "idle"
    /\ cause' = "none"
    /\ creds' \in BOOLEAN
    /\ seen_products' = Get(load_state(file), "seen_products", EmptyDict)
    /\ restock_alerted' = Get(load_state(file), "restock_alerted", EmptyDict)
    /\ last_total_results' = Get(load_state(file), "last_total_results", 0)
    /\ products' = <<>>
    /\ current_total_results' = 0
    /\ failed_page' = -1
    /\ sent' = <<>>
    /\ new_count' = [k \in Keys |-> 0]
    /\ restock_count' = [k \in Keys |-> 0]
    /\ save_result' = "none"
    /\ observed' = {}
    /\ missed' = {}
    /\ UNCHANGED <<now, file, faults>>

\* the listings of the runs with restarts
RestartListings == Catalogs({ProdA, ProdANoPrice})

NextRestart ==
    \/ FetchError
    \/ CycleOf(RestartListings)
    \/ Save
    \/ Shutdown
    \/ KillDuringSave
    \/ Restart

SpecRestart == Init /\ [][NextRestart]_vars

\* the listings with products that have no code, an empty code or a null code
CodeListings == Catalogs(NullPayloads)

NextCodes == FetchError \/ CycleOf(CodeListings) \/ Save \/ Shutdown

SpecCodes == Init /\ [][NextCodes]_vars

\* ------------------------------------------------------------------ claims
\* a step of Cycle that ran to line 184
CompletedCycle == pc = "idle" /\ pc' = "reconciled"

\* a step of Cycle, completed or ended by an exception
CycleStep == pc = "idle" /\ pc' # "idle" /\ cause' # "shutdown"

\* the calls of kind for key among calls
CallsFor(calls, kind, key) ==
    {i \in DOMAIN calls : calls[i].kind = kind /\ calls[i].key = key}

\* C1: in one run of the process a NEW message is sent at most once per key,
\* and reconciling the products of a completed cycle again, against the state
\* that cycle produced, sends no NEW message, raises nothing and marks no restock.
C1_NewAtMostOnce ==
    /\ \A k \in Keys : new_count[k] <= 1
    /\ pc = "reconciled" =>
          LET again == ProductLoop(products,
                          [seen |-> seen_products, codes |-> {}, calls |-> <<>>,
                           raised |-> FALSE], now)
          IN /\ again.calls = <<>>
             /\ ~again.raised
             /\ Restocked(again.seen, again.codes, restock_alerted) = {}

\* C1 witness: a completed cycle whose products hold A, already announced in
\* an earlier cycle, and that sends no NEW message
C1_Witness ==
    /\ pc = "reconciled"
    /\ "A" \in current_codes(products)
    /\ new_count["A"] = 1
    /\ CallsFor(sent, "NEW", "A") = {}

\* C2 (as claimed): a completed cycle whose products hold a tracked key that has
\* missing_since and is not restock-alerted sends exactly one RESTOCK message
\* for it and sets restock_alerted for it.
C2_RestockSent ==
    [][\A k \in Keys :
          (/\ CompletedCycle
           /\ k \in DOMAIN seen_products
           /\ "missing_since" \in DOMAIN seen_products[k]
           /\ ~Get(restock_alerted, k, FALSE)
           /\ k \in current_codes(products'))
          => /\ Cardinality(CallsFor(sent', "RESTOCK", k)) = 1
             /\ Get(restock_alerted', k, FALSE)]_vars

\* C3 (as claimed): after a completed cycle no key of its products has
\* missing_since.
C3_MissingCleared ==
    pc = "reconciled" =>
        \A k \in current_codes(products) : "missing_since" \notin DOMAIN seen_products[k]

\* C4: a completed cycle sends a summary message iff the declared total is
\* greater than last_total_results at its start; it sends at most one, and the
\* message carries the declared total and the positive difference of the two.
C4_SummaryIffIncrease ==
    [][CompletedCycle =>
          LET sums == {i \in DOMAIN sent' : sent'[i].kind = "SUMMARY"}
          IN /\ (sums # {}) <=> (current_total_results' > last_total_results)
             /\ Cardinality(sums) <= 1
             /\ \A i \in sums :
                   /\ sent'[i].text.total = current_total_results'
                   /\ sent'[i].text.count = current_total_results' - last_total_results
                   /\ sent'[i].text.count > 0]_vars

\* C4 witness: a completed cycle that reported a rise by 1 to a total of 2
C4_Witness ==
    /\ pc = "reconciled"
    /\ \E i \in DOMAIN sent :
          sent[i].kind = "SUMMARY" /\ sent[i].text.total = 2 /\ sent[i].text.count = 1

\* C5 (as claimed): after every completed cycle last_total_results equals the
\* declared total of that cycle.
C5_TotalFollowsSnapshot ==
    pc = "reconciled" => last_total_results = current_total_results

\* C5 (amended): after a completed cycle last_total_results is the larger of
\* its earlier value and the declared total; a declared total that is not
\* larger leaves it as it was and sends no summary message.
C5_TotalIsMaximum ==
    [][CompletedCycle =>
          /\ last_total_results' =
                IF current_total_results' > last_total_results
                THEN current_total_results' ELSE last_total_results
          /\ current_total_results' <= last_total_results =>
                /\ last_total_results' = last_total_results
                /\ \A i \in DOMAIN sent' : sent'[i].kind # "SUMMARY"]_vars

\* C5 witness: a completed cycle whose declared total is below the stored one
C5_Witness ==
    /\ pc = "reconciled"
    /\ current_total_results < last_total_results
    /\ \A i \in DOMAIN sent : sent[i].kind # "SUMMARY"

\* C6 (as claimed): for every key of a cycle's products that is not tracked at
\* the start of the cycle, the cycle sends exactly one NEW message, and after
\* it the key is tracked with first_seen and last_seen and without
\* missing_since.
C6_NewItemComplete ==
    [][CycleStep =>
          \A k \in current_codes(products') \ DOMAIN seen_products :
             /\ Cardinality(CallsFor(sent', "NEW", k)) = 1
             /\ k \in DOMAIN seen_products'
             /\ DOMAIN seen_products'[k] = {"first_seen", "last_seen"}]_vars

\* C7: line 183 runs at most once per key in a run, no RESTOCK message is sent
\* twice for a key, and a restock_alerted entry that is true stays true.
C7_RestockAtMostOnce ==
    /\ [](\A k \in Keys :
             /\ restock_count[k] <= 1
             /\ Cardinality(CallsFor(sent, "RESTOCK", k)) <= 1)
    /\ [][\A k \in Keys :
             Get(restock_alerted, k, FALSE) => Get(restock_alerted', k, FALSE)]_vars

\* C7 witness: A, restock-alerted in an earlier cycle, is absent from a later
\* completed cycle and keeps its flag
C7_Witness ==
    /\ pc = "reconciled"
    /\ restock_count["A"] = 1
    /\ Get(restock_alerted, "A", FALSE)
    /\ "A" \notin current_codes(products)

\* C8 (as claimed): the process ends by a shutdown from outside only.
C8_OnlyShutdownTerminates ==
    pc = "terminated" => cause = "shutdown"

\* C9 (as claimed): when the fetch of a page raised in the current cycle, the
\* cycle is a failed fetch: no products reach the loops of lines 148-184,
\* nothing is sent and line 186 is not reached.
C9_NoPartialSnapshot ==
    failed_page # -1 => (products = <<>> /\ sent = <<>> /\ pc # "reconciled")

\* C10: an iteration whose fetch raises sends nothing, writes no file, leaves
\* seen_products, restock_alerted and last_total_results as they were, and
\* is back at the top of the loop POLL_INTERVAL_SEC later.
C10_FetchErrorFrame ==
    [][(failed_page' = 0 /\ now' # now) =>
          /\ sent' = <<>>
          /\ UNCHANGED <<seen_products, restock_alerted, last_total_results, file>>
          /\ UNCHANGED <<new_count, restock_count>>
          /\ pc' = "idle" /\ cause' = "none"
          /\ now' = now + POLL_INTERVAL_SEC]_vars

\* C10 witness: the fetch just raised in a run that tracks A and has saved
C10_Witness ==
    /\ pc = "idle"
    /\ failed_page = 0
    /\ "A" \in DOMAIN seen_products
    /\ file.status = "json"

\* the in-memory state: what lines 187-189 put into the state dict
MemState ==
    [seen_products |-> seen_products, restock_alerted |-> restock_alerted,
     last_total_results |-> last_total_results]

\* the position in prods of the first product with this key
FirstIndex(prods, key) ==
    CHOOSE i \in DOMAIN prods :
        /\ extract_product_key(prods[i]) = key
        /\ \A j \in 1..(i - 1) : extract_product_key(prods[j]) # key

\* C11: the in-memory state a completed cycle leaves is decided by the state
\* before it, the products and the declared total, whatever became of the
\* sends; a key whose NEW message was sent is tracked and a total whose
\* summary was sent is stored whether the send was posted, failed or was
\* disabled; no key gets a second NEW message; a save that succeeds writes
\* that state.
C11_StateIgnoresDispatch ==
    /\ [](pc = "reconciled" =>
            \A i \in DOMAIN sent :
               /\ sent[i].kind = "NEW" => sent[i].key \in DOMAIN seen_products
               /\ sent[i].kind = "SUMMARY" => sent[i].text.total = last_total_results)
    /\ [](\A k \in Keys : new_count[k] <= 1)
    /\ [][CompletedCycle =>
            LET loop == ProductLoop(products',
                           [seen |-> seen_products, codes |-> {}, calls |-> <<>>,
                            raised |-> FALSE], now)
            IN /\ seen_products' = UpdateSeen(loop.seen, loop.codes, now)
               /\ restock_alerted' = UpdateAlerted(loop.seen, loop.codes, restock_alerted)
               /\ last_total_results' =
                     NextTotal(current_total_results', last_total_results)]_vars
    /\ [][(pc = "reconciled" /\ save_result' = "ok") =>
            load_state(file') = MemState]_vars

\* C11 witness: without credentials, A was announced in an earlier cycle (the
\* send was disabled) and a later completed cycle lists A and sends no NEW
C11_Witness ==
    /\ pc = "reconciled"
    /\ ~creds
    /\ new_count["A"] = 1
    /\ "A" \in current_codes(products)
    /\ \A i \in DOMAIN sent : sent[i].kind # "NEW"
    /\ last_total_results > 0

\* C12 (as claimed): when the process is killed inside save_state, the next
\* load_state returns the state the file held before or the complete new state.
C12_KillKeepsCommitted ==
    [][(pc = "reconciled" /\ pc' = "terminated") =>
          load_state(file') \in {load_state(file), MemState}]_vars

\* C13: a save that fails leaves seen_products, restock_alerted and
\* last_total_results as they are and the loop goes on; a save that succeeds
\* writes the whole in-memory state, the changes of cycles whose save failed
\* included.
C13_FailedSaveKeepsMemory ==
    [][(pc = "reconciled" /\ pc' # "reconciled") =>
          /\ UNCHANGED <<seen_products, restock_alerted, last_total_results, new_count>>
          /\ pc' = "idle" /\ cause' = "none"
          /\ save_result' = "ok" => load_state(file') = MemState]_vars

\* C13 witness: the cycle at time 0 listed A and the cycle at time
\* POLL_INTERVAL_SEC listed B without A, both without a failed page; the one
\* failure so far is the save of the first cycle, the save of the second
\* succeeded and the file holds A as first seen at 0
C13_Witness ==
    /\ pc = "idle"
    /\ now = 2 * POLL_INTERVAL_SEC
    /\ faults = 1
    /\ save_result = "ok"
    /\ observed = {"A", "B"}
    /\ seen_products["A"].first_seen = 0
    /\ "missing_since" \in DOMAIN seen_products["A"]
    /\ seen_products["A"].missing_since = POLL_INTERVAL_SEC
    /\ seen_products["B"].first_seen = POLL_INTERVAL_SEC
    /\ load_state(file) = MemState

\* a restart of a process that was shut down while it slept
RestartAfterShutdown == pc = "terminated" /\ cause = "shutdown" /\ pc' = "idle"

C15_TrackedIffObserved ==
    /\ [](cause # "exception" => DOMAIN seen_products = observed)
    /\ []("" \notin DOMAIN seen_products)
    /\ [][DOMAIN seen_products \subseteq DOMAIN seen_products']_vars

\* C16: last_total_results never decreases, whatever the step.
C16_TotalMonotonic ==
    [][last_total_results' >= last_total_results]_vars

\* C16 witness: a completed cycle declared 0 while 2 is stored
C16_Witness ==
    /\ pc = "reconciled"
    /\ current_total_results = 0
    /\ last_total_results = 2

\* C17: a completed cycle gives every tracked key that is not listed
\* missing_since = now if it had none, keeps the missing_since it had, keeps
\* its first_seen and last_seen and sends no message for it.
C17_AbsentFrame ==
    [][CompletedCycle =>
          \A k \in DOMAIN seen_products \ current_codes(products') :
             /\ k \in DOMAIN seen_products'
             /\ seen_products'[k].first_seen = seen_products[k].first_seen
             /\ seen_products'[k].last_seen = seen_products[k].last_seen
             /\ "missing_since" \in DOMAIN seen_products'[k]
             /\ seen_products'[k].missing_since =
                   IF "missing_since" \in DOMAIN seen_products[k]
                   THEN seen_products[k].missing_since ELSE now
             /\ \A i \in DOMAIN sent' : sent'[i].key # k]_vars

\* C17 witness: A is absent for the second cycle in a row and keeps the
\* missing_since of the first
C17_Witness ==
    /\ pc = "reconciled"
    /\ products = <<>>
    /\ "A" \in DOMAIN seen_products
    /\ "missing_since" \in DOMAIN seen_products["A"]
    /\ seen_products["A"].missing_since < now

\* C18: among the messages of a cycle the summary message comes first and the
\* NEW messages follow in the order in which their keys first occur in the
\* products.
C18_MessageOrder ==
    /\ \A i \in DOMAIN sent : sent[i].kind = "SUMMARY" => i = 1
    /\ \A i, j \in DOMAIN sent :
          (i < j /\ sent[i].kind = "NEW" /\ sent[j].kind = "NEW") =>
             FirstIndex(products, sent[i].key) < FirstIndex(products, sent[j].key)

\* C18 witness: a cycle that listed B before A sent the summary, NEW for B
\* and NEW for A, in this order
C18_Witness ==
    /\ pc = "reconciled"
    /\ Len(sent) = 3
    /\ sent[1].kind = "SUMMARY"
    /\ sent[2].kind = "NEW" /\ sent[2].key = "B"
    /\ sent[3].kind = "NEW" /\ sent[3].key = "A"

\* a product with an identity: it has a code that is neither empty nor null
Identified(prod) == "code" \in DOMAIN prod /\ prod.code # "" /\ prod.code # None

\* C19 (as claimed): a product without a code, with an empty code or with a
\* null code is skipped: every tracked key and every key of a NEW message is
\* the code of a listed product that has an identity.
C19_UnidentifiedSkipped ==
    \A k \in DOMAIN seen_products \cup
             {sent[i].key : i \in {j \in DOMAIN sent : sent[j].kind = "NEW"}} :
        \E p \in NullPayloads : Identified(p) /\ p.code = k

\* C20 (as claimed): a key whose restock_alerted is true is tracked, its
\* entry has missing_since, and a fetch in which no page failed did not list
\* it while it was tracked.
C20_AlertedWasMissing ==
    \A k \in DOMAIN restock_alerted :
        restock_alerted[k] =>
           /\ k \in DOMAIN seen_products
           /\ "missing_since" \in DOMAIN seen_products[k]
           /\ k \in missed

====
